---- MODULE Spec2Model ----
(***************************************************************************)
(* gitfeed: clone a repository into a temporary directory, render its      *)
(* directory tree, and concatenate the text of its files into one file.    *)
(* Strings are sequences of one-character strings, so that sorting,        *)
(* extension splitting, lower-casing and prefix building are computed.     *)
(* A path is a sequence of names relative to the temporary directory.      *)
(***************************************************************************)
EXTENDS Integers, Sequences, FiniteSets, TLC

VARIABLES
    pc,                  \* position of main()
    repo,                \* what the remote repository holds: [dirs, files]
    exclude_ext,         \* args.exclude_ext, as given on the command line
    max_file_size,       \* args.max_file_size: NoLimit or a number of MB
    excluded_extensions, \* the normalised list built at lines 73-78
    tmp_exists,          \* the TemporaryDirectory exists on disk
    tmp_tree,            \* content of the temporary directory: [dirs, files]
    tree_lines,          \* result of generate_directory_tree (line 99)
    dir_structure_file,  \* NoFile or the lines written to the tree file
    global_out,          \* NoFile or the sequence of chunks written to it
    walk_stack,          \* os.walk: per open directory, its sub-directories still to walk
    current_root,        \* os.walk: the directory whose files are being looped over
    cur_files,           \* files of current_root not yet visited
    visits,              \* per visited file, what the filesystem answered
    console,             \* what was printed
    stat_calls,          \* number of os.path.getsize calls made
    clone_attempts,      \* number of git clone invocations
    clone_result,        \* "none", or how the git clone ended
    pending_status,      \* exit status being propagated out of the with block
    exit_status          \* NoStatus until the process has ended

vars == <<pc, repo, exclude_ext, max_file_size, excluded_extensions, tmp_exists,
          tmp_tree, tree_lines, dir_structure_file, global_out, walk_stack,
          current_root, cur_files, visits, console, stat_calls, clone_attempts,
          clone_result, pending_status, exit_status>>

\* ------------------------------------------------------------------ bounds
MaxEntries == 3     \* entries of the repository's work tree
MaxDepth == 3       \* nesting depth of the work tree

\* ------------------------------------------------------------------ strings
\* Code points of the characters used.
Ord(c) ==
    CASE c = " " -> 32  [] c = "." -> 46  [] c = "/" -> 47
      [] c = "A" -> 65  [] c = "B" -> 66  [] c = "D" -> 68  [] c = "E" -> 69
      [] c = "H" -> 72  [] c = "M" -> 77
      [] c = "a" -> 97  [] c = "b" -> 98  [] c = "d" -> 100 [] c = "e" -> 101
      [] c = "g" -> 103 [] c = "h" -> 104 [] c = "i" -> 105 [] c = "m" -> 109
      [] c = "s" -> 115 [] c = "t" -> 116 [] c = "u" -> 117
      [] OTHER -> 9000

\* str.lower() on one character.
LowerChar(c) ==
    CASE c = "A" -> "a" [] c = "B" -> "b" [] c = "D" -> "d" [] c = "E" -> "e"
      [] c = "H" -> "h" [] c = "M" -> "m"
      [] OTHER -> c

lower(s) == [i \in 1..Len(s) |-> LowerChar(s[i])]

startswith_dot(s) == Len(s) >= 1 /\ s[1] = "."

\* Python's str ordering: lexicographic on code points, a proper prefix first.
StrLess(a, b) ==
    \E i \in 1..(Len(a) + 1) :
        /\ \A j \in 1..(i - 1) : j <= Len(b) /\ a[j] = b[j]
        /\ \/ i = Len(a) + 1 /\ Len(b) >= i
           \/ i <= Len(a) /\ i <= Len(b) /\ Ord(a[i]) < Ord(b[i])

RECURSIVE sorted(_)
sorted(S) ==
    IF S = {} THEN <<>>
    ELSE LET m == CHOOSE x \in S : \A y \in S : x = y \/ StrLess(x, y)
         IN  <<m>> \o sorted(S \ {m})

\* os.path.splitext(name)[1]: from the last dot on, unless only dots precede it.
splitext_ext(name) ==
    LET dots == {i \in 1..Len(name) : name[i] = "."}
    IN  IF dots = {} THEN <<>>
        ELSE LET dotIndex == CHOOSE i \in dots : \A j \in dots : j <= i
             IN  IF \E k \in 1..(dotIndex - 1) : name[k] # "."
                 THEN SubSeq(name, dotIndex, Len(name))
                 ELSE <<>>

\* ------------------------------------------------------------------ names
DotGit == <<".", "g", "i", "t">>
HEAD == <<"H", "E", "A", "D">>
Sub == <<"s", "u", "b">>
AMd == <<"a", ".", "m", "d">>
BMD == <<"B", ".", "M", "D">>
DotMd == <<".", "m", "d">>

DirNames == {DotGit, Sub}
FileNames == {AMd, BMD, DotMd}

\* the --exclude-ext lists tried: none, with and without the dot, upper case, two values
ExcludeExtArgs ==
    { <<>>,
      << <<".", "m", "d">> >>,
      << <<"M", "D">> >>,
      << <<"g", "i", "t">> >>,
      << <<"g", "i", "t">>, <<".", "M", "d">> >> }

\* ------------------------------------------------------------------ filesystem
EmptyTree == [dirs |-> {}, files |-> {}]
Root == <<>>

Entries(t) == t.dirs \cup t.files
Parent(p) == SubSeq(p, 1, Len(p) - 1)
Name(p) == p[Len(p)]

\* os.listdir(path): the names of the entries directly under path.
listdir(t, path) == { Name(p) : p \in {q \in Entries(t) : Len(q) >= 1 /\ Parent(q) = path} }

\* os.path.isdir(os.path.join(start_path, item))
isdir(t, path) == path \in t.dirs

\* The work trees a repository may hold: at most MaxEntries entries, at most
\* MaxDepth deep; no tracked entry is called .git at the top level.
Extend(t) ==
    LET parents == {Root} \cup {d \in t.dirs : Len(d) < MaxDepth}
        free(p) == p \notin Entries(t) /\ p # <<DotGit>>
    IN  { [t EXCEPT !.dirs = @ \cup {par \o <<n>>}] :
              <<par, n>> \in {x \in parents \X DirNames : free(x[1] \o <<x[2]>>)} }
        \cup
        { [t EXCEPT !.files = @ \cup {par \o <<n>>}] :
              <<par, n>> \in {x \in parents \X FileNames : free(x[1] \o <<x[2]>>)} }

RECURSIVE TreesUpTo(_)
TreesUpTo(n) ==
    IF n = 0 THEN {EmptyTree}
    ELSE LET S == TreesUpTo(n - 1) IN S \cup UNION { Extend(t) : t \in S }

\* What `git clone` leaves in the target directory: the work tree and .git/.
Cloned(t) == [dirs |-> t.dirs \cup {<<DotGit>>}, files |-> t.files \cup {<<DotGit, HEAD>>}]

\* ------------------------------------------------------------------ tree renderer
\* The box-drawing characters are written in ASCII here: "%" stands for the
\* corner U+2514, "+" for the tee U+251C, "-" for the dash U+2500 and "|" for
\* the vertical bar U+2502.
Blank4 == <<" ", " ", " ", " ">>
Bar4 == <<"|", " ", " ", " ">>
LastConnector == <<"%", "-", "-", " ">>
MidConnector == <<"+", "-", "-", " ">>

\* line 27
connector(index, n) == IF index = n - 1 THEN LastConnector ELSE MidConnector

\* lines 32-35 with the two continuations exchanged
extension_prefix_swapped(prefix, index, n) ==
    IF index = n - 1 THEN prefix \o Bar4 ELSE prefix \o Blank4

\* lines 32-35
extension_prefix(prefix, index, n) == IF index = n - 1 THEN prefix \o Blank4 ELSE prefix \o Bar4

RECURSIVE build_items_flat(_, _, _, _, _)
\* the loop of lines 25-38 without the recursive call of line 36
build_items_flat(t, start_path, prefix, items, index) ==
    IF index >= Len(items) THEN <<>>
    ELSE LET item == items[index + 1]
             path == start_path \o <<item>>
             here == IF isdir(t, path)
                     THEN <<prefix \o connector(index, Len(items)) \o item \o <<"/">>>>
                     ELSE <<prefix \o connector(index, Len(items)) \o item>>
         IN  here \o build_items_flat(t, start_path, prefix, items, index + 1)

RECURSIVE build_tree_lines(_, _, _)
RECURSIVE build_items(_, _, _, _, _)

\* the loop of lines 25-38, from 0-based position index on
build_items(t, start_path, prefix, items, index) ==
    IF index >= Len(items) THEN <<>>
    ELSE LET item == items[index + 1]
             path == start_path \o <<item>>
             here == IF isdir(t, path)
                     THEN <<prefix \o connector(index, Len(items)) \o item \o <<"/">>>>
                          \o build_tree_lines(t, path, extension_prefix(prefix, index, Len(items)))
                     ELSE <<prefix \o connector(index, Len(items)) \o item>>
         IN  here \o build_items(t, start_path, prefix, items, index + 1)

build_tree_lines(t, start_path, prefix) ==
    build_items(t, start_path, prefix, sorted(listdir(t, start_path)), 0)

\* line 81, for a URL ending in /repo.git
repo_name == <<"r", "e", "p", "o">>

generate_directory_tree(t, name) ==
    << <<"Directory structure:">>, LastConnector \o name \o <<"/">> >>
    \o build_tree_lines(t, Root, Blank4)

\* ------------------------------------------------------------------ main
NoStatus == -1
NoFile == [exists |-> FALSE, data |-> <<>>]
NoLimit == [set |-> FALSE, mb |-> 0]
Limit(m) == [set |-> TRUE, mb |-> m]

MaxFileSizeArgs == {NoLimit, Limit(0), Limit(1)}
FileSizes == {0, 1024 * 1024, 1024 * 1024 + 1}

Range(s) == { s[i] : i \in 1..Len(s) }

Init ==
    /\ pc = "start"
    /\ repo \in TreesUpTo(MaxEntries)
    /\ exclude_ext \in ExcludeExtArgs
    /\ max_file_size \in MaxFileSizeArgs
    /\ excluded_extensions = <<>>
    /\ tmp_exists = FALSE
    /\ tmp_tree = EmptyTree
    /\ tree_lines = <<>>
    /\ dir_structure_file = NoFile
    /\ global_out = NoFile
    /\ walk_stack = <<>>
    /\ current_root = Root
    /\ cur_files = {}
    /\ visits = <<>>
    /\ console = <<>>
    /\ stat_calls = 0
    /\ clone_attempts = 0
    /\ clone_result = "none"
    /\ pending_status = NoStatus
    /\ exit_status = NoStatus

\* lines 75-78 without the lower-casing
normalize_ext_nolower(ext) == IF ~startswith_dot(ext) THEN <<".">> \o ext ELSE ext

\* lines 75-78, for one value
normalize_ext(ext) == IF ~startswith_dot(ext) THEN <<".">> \o lower(ext) ELSE lower(ext)

\* lines 70-87: the arguments are parsed and the exclusions normalised
ParseArgs ==
    /\ pc = "start"
    /\ excluded_extensions' = [i \in 1..Len(exclude_ext) |-> normalize_ext(exclude_ext[i])]
    /\ pc' = "mktemp"
    /\ UNCHANGED <<repo, exclude_ext, max_file_size, tmp_exists, tmp_tree, tree_lines,
                   dir_structure_file, global_out, walk_stack, current_root, cur_files,
                   visits, console, stat_calls, clone_attempts, clone_result, pending_status, exit_status>>

\* line 90: the with block is entered, the temporary directory exists
EnterTmp ==
    /\ pc = "mktemp"
    /\ tmp_exists' = TRUE
    /\ pc' = "clone"
    /\ UNCHANGED <<repo, exclude_ext, max_file_size, excluded_extensions, tmp_tree,
                   tree_lines, dir_structure_file, global_out, walk_stack, current_root,
                   cur_files, visits, console, stat_calls, clone_attempts, clone_result,
                   pending_status, exit_status>>

Notice(kind, path) == [kind |-> kind, path |-> path]

\* lines 93-96 with the clone's failure ignored
after_clone_ignore(result) == "tree"

\* line 96 with sys.exit(0)
clone_exit_status_zero(result) == 0

\* lines 93-96: where main() goes once the clone returned or raised
after_clone(result) == IF result = "ok" THEN "tree" ELSE "unwind"

\* line 96, sys.exit(1); an exception nothing catches ends the interpreter with 1 too
clone_exit_status(result) == 1

\* the interpreter's exit status after an uncaught exception (here from line 99)
uncaught_exit_status(where) == 1

\* main() returns at line 144 and the interpreter ends normally
normal_exit_status(printed) == 0

\* lines 92-96: git clone succeeds, exits non-zero (CalledProcessError, caught,
\* sys.exit(1)) or cannot be started (OSError, not caught: the interpreter ends
\* with status 1 after the traceback).
Clone ==
    /\ pc = "clone"
    /\ \E result \in {"ok", "CalledProcessError", "OSError"} :
        /\ clone_attempts' = clone_attempts + 1
        /\ clone_result' = result
        /\ tmp_tree' = IF result = "ok" THEN Cloned(repo) ELSE tmp_tree
        /\ console' = IF result = "CalledProcessError"
                      THEN Append(console, Notice("clone_error", <<>>))
                      ELSE console
        /\ pending_status' = IF result = "ok" THEN pending_status ELSE clone_exit_status(result)
        /\ pc' = after_clone(result)
    /\ UNCHANGED <<repo, exclude_ext, max_file_size, excluded_extensions, tmp_exists,
                   tree_lines, dir_structure_file, global_out, walk_stack, current_root,
                   cur_files, visits, stat_calls, exit_status>>

\* line 99: the tree is rendered; os.listdir may raise, which nothing catches
GenerateTree ==
    /\ pc = "tree"
    /\ \E listing_fails \in BOOLEAN :
        IF listing_fails
        THEN /\ pending_status' = uncaught_exit_status("tree")
             /\ pc' = "unwind"
             /\ UNCHANGED tree_lines
        ELSE /\ tree_lines' = generate_directory_tree(tmp_tree, repo_name)
             /\ pc' = "write_tree"
             /\ UNCHANGED pending_status
    /\ UNCHANGED <<repo, exclude_ext, max_file_size, excluded_extensions, tmp_exists,
                   tmp_tree, dir_structure_file, global_out, walk_stack, current_root,
                   cur_files, visits, console, stat_calls, clone_attempts, clone_result, exit_status>>

\* lines 100-103
WriteTree ==
    /\ pc = "write_tree"
    /\ dir_structure_file' =
           [exists |-> TRUE,
            data |-> [i \in 1..Len(tree_lines) |-> tree_lines[i] \o <<"\n">>]]
    /\ console' = Append(console, Notice("tree_saved", <<>>))
    /\ pc' = "open_global"
    /\ UNCHANGED <<repo, exclude_ext, max_file_size, excluded_extensions, tmp_exists,
                   tmp_tree, tree_lines, global_out, walk_stack, current_root, cur_files,
                   visits, stat_calls, clone_attempts, clone_result, pending_status, exit_status>>

\* lines 106-107: the contents file is created and os.walk starts at the root
OpenGlobal ==
    /\ pc = "open_global"
    /\ global_out' = [exists |-> TRUE, data |-> <<>>]
    /\ walk_stack' = <<{Root}>>
    /\ pc' = "walk"
    /\ UNCHANGED <<repo, exclude_ext, max_file_size, excluded_extensions, tmp_exists,
                   tmp_tree, tree_lines, dir_structure_file, current_root, cur_files,
                   visits, console, stat_calls, clone_attempts, clone_result, pending_status,
                   exit_status>>

\* lines 109-110 left out
prune_dirs_none(dirs) == dirs

\* lines 109-110, on the dirs list os.walk yielded
prune_dirs(dirs) == dirs \ {DotGit}

RECURSIVE drop_done(_)
\* os.walk returns from the directories all of whose sub-directories are walked
drop_done(stack) ==
    IF stack # <<>> /\ stack[Len(stack)] = {}
    THEN drop_done(SubSeq(stack, 1, Len(stack) - 1))
    ELSE stack

\* line 107, with 109-110: os.walk yields the next directory, top-down and depth-first,
\* its sub-directories in the order the listing gave them (any order)
WalkDir ==
    /\ pc = "walk"
    /\ cur_files = {}
    /\ walk_stack # <<>>
    /\ LET top == walk_stack[Len(walk_stack)]
       IN  \E d \in top :
            LET names == listdir(tmp_tree, d)
                dirs == {n \in names : isdir(tmp_tree, d \o <<n>>)}
                files == names \ dirs
                kept == prune_dirs(dirs)
                rest == [walk_stack EXCEPT ![Len(walk_stack)] = top \ {d}]
            IN  /\ current_root' = d
                /\ cur_files' = { d \o <<n>> : n \in files }
                /\ walk_stack' =
                       IF files = {}
                       THEN drop_done(Append(rest, { d \o <<n>> : n \in kept }))
                       ELSE Append(rest, { d \o <<n>> : n \in kept })
    /\ UNCHANGED <<pc, repo, exclude_ext, max_file_size, excluded_extensions, tmp_exists,
                   tmp_tree, tree_lines, dir_structure_file, global_out, visits, console,
                   stat_calls, clone_attempts, clone_result, pending_status, exit_status>>

RECURSIVE join(_)
\* os.path.relpath(filepath, tmpdirname): the components joined with "/"
join(path) ==
    IF Len(path) = 0 THEN <<>>
    ELSE IF Len(path) = 1 THEN path[1]
    ELSE path[1] \o <<"/">> \o join(Tail(path))

Separator == <<"================================================\n">>

\* lines 116-117
ext_excluded(file) ==
    LET file_ext == lower(splitext_ext(file))
    IN  excluded_extensions # <<>> /\ file_ext \in Range(excluded_extensions)

\* lines 129-130 with >= for >
too_large_ge(file_size, mb) == file_size >= mb * 1024 * 1024

\* lines 129-130
too_large(file_size, mb) == file_size > mb * 1024 * 1024

\* lines 137-142 reading and writing piece by piece: what was decoded before the
\* failure is already written when the error notice is
content_writes_partial(relative_path, read_ok) ==
    IF read_ok
    THEN << <<"<text of ">> \o relative_path \o <<">">> >>
    ELSE << <<"<part of ">> \o relative_path \o <<">">>,
            <<"[!] Error reading file: ", "<message>", "\n">> >>

\* lines 137-142: what reaches the contents file for the file's text
content_writes(relative_path, read_ok) ==
    IF read_ok
    THEN << <<"<text of ">> \o relative_path \o <<">">> >>
    ELSE << <<"[!] Error reading file: ", "<message>", "\n">> >>

\* lines 134-143 with one newline at line 143
block_writes_one_newline(relative_path, read_ok) ==
    << Separator, <<"File: ">> \o relative_path \o <<"\n">>, Separator >>
    \o content_writes(relative_path, read_ok)
    \o << <<"\n">> >>

\* lines 134-143
block_writes(relative_path, read_ok) ==
    << Separator, <<"File: ">> \o relative_path \o <<"\n">>, Separator >>
    \o content_writes(relative_path, read_ok)
    \o << <<"\n\n">> >>

Visit(path, stat_ok, size, read_ok) ==
    [path |-> path, stat_ok |-> stat_ok, size |-> size, read_ok |-> read_ok]

\* lines 111-143: one iteration of the loop over the files of current_root
VisitFile ==
    /\ pc = "walk"
    /\ cur_files # {}
    /\ \E filepath \in cur_files :
        LET file == Name(filepath)
            relative_path == join(filepath)
        IN  /\ cur_files' = cur_files \ {filepath}
            /\ walk_stack' = IF cur_files = {filepath} THEN drop_done(walk_stack) ELSE walk_stack
            /\ \/ /\ ext_excluded(file)
                  /\ console' = Append(console, Notice("skip_ext", relative_path))
                  /\ visits' = Append(visits, Visit(filepath, TRUE, 0, TRUE))
                  /\ UNCHANGED <<global_out, stat_calls>>
               \/ /\ ~ext_excluded(file)
                  /\ max_file_size.set
                  /\ stat_calls' = stat_calls + 1
                  /\ \/ /\ console' = Append(console, Notice("stat_fail", relative_path))
                        /\ visits' = Append(visits, Visit(filepath, FALSE, 0, TRUE))
                        /\ UNCHANGED global_out
                     \/ \E file_size \in FileSizes :
                          IF too_large(file_size, max_file_size.mb)
                          THEN /\ console' = Append(console, Notice("skip_size", relative_path))
                               /\ visits' = Append(visits, Visit(filepath, TRUE, file_size, TRUE))
                               /\ UNCHANGED global_out
                          ELSE \E read_ok \in BOOLEAN :
                               /\ global_out' = [global_out EXCEPT
                                      !.data = @ \o block_writes(relative_path, read_ok)]
                               /\ visits' = Append(visits, Visit(filepath, TRUE, file_size, read_ok))
                               /\ UNCHANGED console
               \/ /\ ~ext_excluded(file)
                  /\ ~max_file_size.set
                  /\ \E read_ok \in BOOLEAN :
                       /\ global_out' = [global_out EXCEPT
                              !.data = @ \o block_writes(relative_path, read_ok)]
                       /\ visits' = Append(visits, Visit(filepath, TRUE, 0, read_ok))
                  /\ UNCHANGED <<console, stat_calls>>
    /\ UNCHANGED <<pc, repo, exclude_ext, max_file_size, excluded_extensions, tmp_exists,
                   tmp_tree, tree_lines, dir_structure_file, current_root, clone_attempts, clone_result,
                   pending_status, exit_status>>

\* line 144: the walk is over, the contents file is closed; main returns
WalkDone ==
    /\ pc = "walk"
    /\ cur_files = {}
    /\ walk_stack = <<>>
    /\ console' = Append(console, Notice("contents_saved", <<>>))
    /\ pending_status' = normal_exit_status(console')
    /\ pc' = "unwind"
    /\ UNCHANGED <<repo, exclude_ext, max_file_size, excluded_extensions, tmp_exists,
                   tmp_tree, tree_lines, dir_structure_file, global_out, walk_stack,
                   current_root, cur_files, visits, stat_calls, clone_attempts, clone_result, exit_status>>

\* the directory removed at the end of main() only, not by a with block
TmpCleanup_leak ==
    /\ pc = "unwind"
    /\ tmp_exists' = (pending_status # 0)
    /\ tmp_tree' = IF pending_status # 0 THEN tmp_tree ELSE EmptyTree
    /\ exit_status' = pending_status
    /\ pc' = "exited"
    /\ UNCHANGED <<repo, exclude_ext, max_file_size, excluded_extensions, tree_lines,
                   dir_structure_file, global_out, walk_stack, current_root, cur_files,
                   visits, console, stat_calls, clone_attempts, clone_result,
                   pending_status>>

\* line 90, TemporaryDirectory.__exit__: runs however the block is left, and
\* removes the directory; then the process ends with the status on its way out
TmpCleanup ==
    /\ pc = "unwind"
    /\ tmp_exists' = FALSE
    /\ tmp_tree' = EmptyTree
    /\ exit_status' = pending_status
    /\ pc' = "exited"
    /\ UNCHANGED <<repo, exclude_ext, max_file_size, excluded_extensions, tree_lines,
                   dir_structure_file, global_out, walk_stack, current_root, cur_files,
                   visits, console, stat_calls, clone_attempts, clone_result, pending_status>>

Next ==
    \/ ParseArgs
    \/ EnterTmp
    \/ Clone
    \/ GenerateTree
    \/ WriteTree
    \/ OpenGlobal
    \/ WalkDir
    \/ VisitFile
    \/ WalkDone
    \/ TmpCleanup

Spec == Init /\ [][Next]_vars

\* ------------------------------------------------------------------ properties
\* The content of the temporary directory after a successful clone.
Work == Cloned(repo)

\* generate_directory_tree has just returned
Rendered == pc = "write_tree"

Children(t, d) == {q \in Entries(t) : Len(q) >= 1 /\ Parent(q) = d}

\* C1: the rendered tree has one caption line, one root line and exactly one
\* line per entry of the directory, files and directories at every depth.
C1_LineCount ==
    Rendered =>
        /\ Len(tree_lines) = Cardinality(Work.dirs \cup Work.files) + 2
        /\ tree_lines[1] = <<"Directory structure:">>
        /\ tree_lines[2] = <<"%", "-", "-", " ", "r", "e", "p", "o", "/">>

\* a rendered tree with an empty directory and an entry two levels down
C1_Witness ==
    /\ Rendered
    /\ \E d \in Work.dirs : Children(Work, d) = {}
    /\ \E p \in Entries(repo) : Len(p) = 3

\* p comes before q in a depth-first listing with sorted siblings
PathLess(p, q) ==
    \E i \in 1..(Len(p) + 1) :
        /\ \A j \in 1..(i - 1) : j <= Len(q) /\ p[j] = q[j]
        /\ \/ i = Len(p) + 1 /\ Len(q) >= i
           \/ i <= Len(p) /\ i <= Len(q) /\ StrLess(p[i], q[i])

Rank(t, p) == Cardinality({q \in Entries(t) : PathLess(q, p)}) + 1

IsLastSibling(t, p) ==
    \A q \in Children(t, Parent(p)) : q = p \/ StrLess(Name(q), Name(p))

\* four blanks for the root, then per proper ancestor four blanks when it is a
\* last sibling and a bar and three blanks when it is not
AncestorPrefix(t, p) ==
    [j \in 1..(4 * Len(p)) |->
        LET u == (j - 1) \div 4
        IN  IF u = 0 \/ (j - 1) % 4 # 0 \/ IsLastSibling(t, SubSeq(p, 1, u))
            THEN " " ELSE "|"]

ExpectedLine(t, p) ==
    AncestorPrefix(t, p)
    \o (IF IsLastSibling(t, p) THEN <<"%", "-", "-", " ">> ELSE <<"+", "-", "-", " ">>)
    \o Name(p)
    \o (IF p \in t.dirs THEN <<"/">> ELSE <<>>)

\* C2: every entry's line carries the terminal connector exactly when it is the
\* last of its sorted siblings, the lines of a directory's children follow its
\* own line, and their prefix continues each ancestor with blanks when that
\* ancestor is a last sibling and with a bar when it is not.
C2_Connectors ==
    Rendered =>
        \A p \in Entries(Work) :
            /\ 2 + Rank(Work, p) <= Len(tree_lines)
            /\ tree_lines[2 + Rank(Work, p)] = ExpectedLine(Work, p)

\* a rendered tree where a directory that is not last and one that is last
\* both have children, and some directory has two children
C2_Witness ==
    /\ Rendered
    /\ \E d \in Work.dirs : ~IsLastSibling(Work, d) /\ Children(Work, d) # {}
    /\ \E d \in Work.dirs : /\ IsLastSibling(Work, d)
                            /\ Cardinality(Children(Work, d)) = 2

\* ---- the content walk
Exited == pc = "exited"
CloneFailed == clone_result \in {"CalledProcessError", "OSError"}
Completed == Exited /\ global_out.exists

Written == Range(global_out.data)
HeaderOf(f) == <<"File: ">> \o join(f) \o <<"\n">>
TextOf(f) == <<"<text of ">> \o join(f) \o <<">">>
ErrorNotice == <<"[!] Error reading file: ", "<message>", "\n">>
SeparatorLine == <<"================================================\n">>

Notices(kind, f) ==
    Cardinality({i \in 1..Len(console) : console[i] = [kind |-> kind, path |-> join(f)]})
Mentioned(f) == \E i \in 1..Len(console) : console[i].path = join(f)
Visited(f) == \E i \in 1..Len(visits) : visits[i].path = f

UnderGit(f) == \E k \in 1..(Len(f) - 1) : f[k] = <<".", "g", "i", "t">>

\* C3: no file under a directory named .git, at the top level or nested, is
\* visited by the walk: none has a block in the contents output or a notice.
C3_GitPruned ==
    \A f \in Work.files :
        UnderGit(f) => /\ ~Visited(f)
                       /\ HeaderOf(f) \notin Written
                       /\ TextOf(f) \notin Written
                       /\ ~Mentioned(f)

\* a completed walk of a tree with a file under a nested .git directory, next
\* to the one under the top-level .git
C3_Witness ==
    /\ Completed
    /\ \E f \in repo.files : UnderGit(f) /\ Len(f) = 3
    /\ \E f \in Work.files : UnderGit(f) /\ Len(f) = 2

\* a supplied value lower-cased, with a dot put in front when it has none
DotLower(v) == IF Len(v) >= 1 /\ v[1] = "." THEN lower(v) ELSE <<".">> \o lower(v)
ExtOf(f) == lower(splitext_ext(Name(f)))
ExtMatches(f) == \E k \in 1..Len(exclude_ext) : DotLower(exclude_ext[k]) = ExtOf(f)

\* C4: a visited file is skipped for its extension, with one notice and no
\* block, exactly when its lower-cased extension is one of the normalised
\* --exclude-ext values; its size is then not looked up.
C4_ExtensionRule ==
    /\ \A i \in 1..Len(visits) :
        LET f == visits[i].path
        IN  /\ Notices("skip_ext", f) = IF ExtMatches(f) THEN 1 ELSE 0
            /\ ExtMatches(f) => /\ HeaderOf(f) \notin Written
                                /\ Notices("skip_size", f) = 0
                                /\ Notices("stat_fail", f) = 0
    /\ stat_calls <= Cardinality({i \in 1..Len(visits) : ~ExtMatches(visits[i].path)})

\* B.MD skipped under --exclude-ext MD, and a file with another extension written
C4_Witness ==
    /\ exclude_ext = << <<"M", "D">> >>
    /\ \E i \in 1..Len(visits) :
          /\ Name(visits[i].path) = <<"B", ".", "M", "D">>
          /\ Notices("skip_ext", visits[i].path) = 1
    /\ \E i \in 1..Len(visits) :
          /\ ~ExtMatches(visits[i].path)
          /\ HeaderOf(visits[i].path) \in Written

LimitBytes == max_file_size.mb * 1048576

\* C5: with --max-file-size set, a file that passed the extension check is
\* skipped with a notice when its size is above the limit in bytes, written
\* when it is at or below it, and skipped with a notice when its size cannot
\* be obtained; with the option unset no size is looked up and no file is
\* skipped for size.
C5_SizeRule ==
    /\ \A i \in 1..Len(visits) :
        LET v == visits[i]
            f == v.path
        IN  ~ExtMatches(f) =>
              IF max_file_size.set
              THEN /\ ~v.stat_ok =>
                        /\ Notices("stat_fail", f) = 1
                        /\ HeaderOf(f) \notin Written /\ TextOf(f) \notin Written
                   /\ (v.stat_ok /\ v.size > LimitBytes) =>
                        /\ Notices("skip_size", f) = 1
                        /\ HeaderOf(f) \notin Written /\ TextOf(f) \notin Written
                   /\ (v.stat_ok /\ v.size <= LimitBytes) =>
                        /\ HeaderOf(f) \in Written
                        /\ ~Mentioned(f)
              ELSE /\ HeaderOf(f) \in Written
                   /\ ~Mentioned(f)
    /\ ~max_file_size.set => stat_calls = 0
    /\ max_file_size.set =>
          stat_calls = Cardinality({i \in 1..Len(visits) : ~ExtMatches(visits[i].path)})

\* a limit of 1 MB: one file of exactly 1 MB written, one a byte larger skipped,
\* one whose size could not be obtained skipped
C5_Witness ==
    /\ max_file_size = [set |-> TRUE, mb |-> 1]
    /\ \E i, j, k \in 1..Len(visits) :
          /\ visits[i].stat_ok /\ visits[i].size = 1048576
          /\ HeaderOf(visits[i].path) \in Written
          /\ visits[j].stat_ok /\ visits[j].size = 1048577
          /\ Notices("skip_size", visits[j].path) = 1
          /\ ~visits[k].stat_ok
          /\ Notices("stat_fail", visits[k].path) = 1

\* the file passed the extension check and the size check
Passed(v) ==
    /\ ~ExtMatches(v.path)
    /\ max_file_size.set => (v.stat_ok /\ v.size <= LimitBytes)

BlockNo(i) == Cardinality({j \in 1..i : Passed(visits[j])})
Walkable == {f \in Work.files : ~UnderGit(f)}

\* C6: a file that passed both checks and cannot be read has the error notice
\* as the content section of its block and none of its text in the output, and
\* the walk goes on: a run that opened the contents file ends with every file
\* outside .git visited once and with status 0.
C6_ReadFailure ==
    /\ \A i \in 1..Len(visits) :
          (Passed(visits[i]) /\ ~visits[i].read_ok) =>
              /\ Len(global_out.data) >= 5 * BlockNo(i)
              /\ global_out.data[5 * BlockNo(i) - 1] = ErrorNotice
              /\ global_out.data[5 * BlockNo(i)] = <<"\n\n">>
              /\ TextOf(visits[i].path) \notin Written
              /\ Written \subseteq
                    {SeparatorLine, ErrorNotice, <<"\n\n">>}
                    \cup {HeaderOf(visits[j].path) : j \in 1..Len(visits)}
                    \cup {TextOf(visits[j].path) : j \in {k \in 1..Len(visits) : visits[k].read_ok}}
    /\ Completed =>
          /\ exit_status = 0
          /\ Len(visits) = Cardinality(Walkable)
          /\ {visits[i].path : i \in 1..Len(visits)} = Walkable

\* a completed walk in which a read failure is followed by a file that is read
C6_Witness ==
    /\ Completed
    /\ \E i, j \in 1..Len(visits) :
          /\ i < j
          /\ Passed(visits[i]) /\ ~visits[i].read_ok
          /\ Passed(visits[j]) /\ visits[j].read_ok
          /\ TextOf(visits[j].path) \in Written

ExpectedBlock(v) ==
    << SeparatorLine, HeaderOf(v.path), SeparatorLine,
       IF v.read_ok THEN TextOf(v.path) ELSE ErrorNotice,
       <<"\n\n">> >>

RECURSIVE ExpectedData(_)
ExpectedData(vs) ==
    IF vs = <<>> THEN <<>>
    ELSE LET v == vs[Len(vs)]
         IN  ExpectedData(SubSeq(vs, 1, Len(vs) - 1))
             \o (IF Passed(v) THEN ExpectedBlock(v) ELSE <<>>)

\* C7: the contents output is, in visit order, one block per file that passed
\* both checks and nothing else: separator, File: line, separator, the text or
\* the error notice, two newlines.
C7_Blocks ==
    /\ global_out.data = ExpectedData(visits)
    /\ ~global_out.exists => visits = <<>>

\* a completed walk with a block for a nested file and a skipped file
C7_Witness ==
    /\ Completed
    /\ \E i, j \in 1..Len(visits) :
          /\ Passed(visits[i]) /\ Len(visits[i].path) = 2
          /\ ~Passed(visits[j])

\* ---- the run
\* C8: once the run has ended the temporary directory is gone, however the
\* with block was left; it exists from the clone until then.
C8_TmpRemoved ==
    /\ Exited => ~tmp_exists
    /\ pc \in {"clone", "tree", "write_tree", "open_global", "walk", "unwind"} => tmp_exists

\* a run ended by an exception raised while the tree was rendered
C8_Witness ==
    /\ Exited
    /\ clone_result = "ok"
    /\ ~dir_structure_file.exists
    /\ ~tmp_exists

\* C9: the clone is attempted once, before anything is rendered; when it fails
\* no tree is rendered, neither output file is created and the status is not
\* 0; the contents file is opened only after the tree file is written.
C9_CloneFirst ==
    /\ clone_attempts <= 1
    /\ clone_attempts = 1 <=> clone_result # "none"
    /\ Exited => clone_attempts = 1
    /\ (tree_lines # <<>> \/ dir_structure_file.exists \/ global_out.exists) =>
          clone_result = "ok"
    /\ (CloneFailed /\ Exited) => exit_status # 0
    /\ CloneFailed => pc \in {"unwind", "exited"}
    /\ dir_structure_file.exists =>
          /\ Len(dir_structure_file.data) = Len(tree_lines)
          /\ \A i \in 1..Len(tree_lines) :
                dir_structure_file.data[i] = tree_lines[i] \o <<"\n">>
    /\ global_out.exists => dir_structure_file.exists

\* a run ended by a failed clone
C9_Witness ==
    /\ Exited
    /\ clone_result = "CalledProcessError"
    /\ exit_status = 1
    /\ ~dir_structure_file.exists /\ ~global_out.exists

TreeAborted == Exited /\ clone_result = "ok" /\ ~dir_structure_file.exists

\* C10 as stated: status 0 when both stages complete; the status of a failed
\* clone is not 0 and no other outcome of a run ends with it.
C10_DistinctStatus ==
    Exited =>
        /\ Completed => exit_status = 0
        /\ CloneFailed => exit_status # 0
        /\ \A other \in {"CalledProcessError", "OSError"} :
              ~CloneFailed => exit_status # clone_exit_status(other)

\* C10: status 0 when both stages complete, whatever was skipped or unreadable;
\* status 1 after a failed clone, which differs from that of a completed run and
\* is also the status of a run aborted by a directory-listing error.
C10_ExitStatus ==
    Exited =>
        /\ Completed => exit_status = 0
        /\ CloneFailed => exit_status = 1
        /\ TreeAborted => exit_status = 1
        /\ exit_status = 0 => Completed

\* a completed run with status 0 in which one file was skipped for size, one
\* had no size and one could not be read
C10_Witness ==
    /\ Exited
    /\ exit_status = 0
    /\ \E i, j, k \in 1..Len(visits) :
          /\ Notices("skip_size", visits[i].path) = 1
          /\ Notices("stat_fail", visits[j].path) = 1
          /\ Passed(visits[k]) /\ ~visits[k].read_ok

====
